---- MODULE Spec2Model ----
(***************************************************************************)
(* Model of the property search service of src/app.py: the /autocomplete  *)
(* and /search request handlers, the store queries they issue, the fuzzy   *)
(* scoring they apply (fuzzywuzzy over difflib's SequenceMatcher) and the  *)
(* ranking, de-duplication and truncation of the suggestions they return.  *)
(*                                                                         *)
(* Strings are sequences of one-character strings.  Indices into strings   *)
(* follow Python: 0-based, half-open ranges a[lo:hi].                      *)
(***************************************************************************)
EXTENDS Integers, Sequences, FiniteSets, TLC

(***************************************************************************)
(* Characters and Python string primitives                                 *)
(***************************************************************************)
UpperChars == <<"A","B","C","D","E","F","G","H","I","J","K","L","M",
                "N","O","P","Q","R","S","T","U","V","W","X","Y","Z">>
LowerChars == <<"a","b","c","d","e","f","g","h","i","j","k","l","m",
                "n","o","p","q","r","s","t","u","v","w","x","y","z">>
DigitChars == <<"0","1","2","3","4","5","6","7","8","9">>

\* The characters \w matches: what utils.full_process keeps.
WordChars == DigitChars \o <<"_">> \o LowerChars

\* The characters of the model in code-point order.
AsciiChars == <<" ", "%">> \o DigitChars \o UpperChars \o <<"_">> \o LowerChars

IndexOf(seq, c) == CHOOSE i \in 1..Len(seq) : seq[i] = c

IsIn(seq, c) == \E i \in 1..Len(seq) : seq[i] = c

\* str.lower() on one character
LowerChar(c) == IF IsIn(UpperChars, c) THEN LowerChars[IndexOf(UpperChars, c)] ELSE c

\* str.lower()
Lower(s) == [i \in 1..Len(s) |-> LowerChar(s[i])]

\* Python slice s[lo:hi], 0-based and half-open, clipped to the string
Slice(s, lo, hi) ==
    LET h == IF hi > Len(s) THEN Len(s) ELSE hi
    IN  IF lo >= h THEN <<>> ELSE SubSeq(s, lo + 1, h)

RECURSIVE LStrip(_)
LStrip(s) == IF s # <<>> /\ Head(s) = " " THEN LStrip(Tail(s)) ELSE s

RECURSIVE RStrip(_)
RStrip(s) == IF s # <<>> /\ s[Len(s)] = " " THEN RStrip(SubSeq(s, 1, Len(s) - 1)) ELSE s

\* str.strip()
Strip(s) == RStrip(LStrip(s))

\* Python's `sub in s`
Contains(sub, s) ==
    \E i \in 0..(Len(s) - Len(sub)) : Slice(s, i, i + Len(sub)) = sub

\* SQL `s LIKE p`: % matches any run of characters, _ any one character
RECURSIVE LikeMatch(_, _)
LikeMatch(p, s) ==
    IF p = <<>> THEN s = <<>>
    ELSE IF Head(p) = "%"
         THEN LikeMatch(Tail(p), s) \/ (s # <<>> /\ LikeMatch(p, Tail(s)))
         ELSE /\ s # <<>>
              /\ (Head(p) = "_" \/ Head(p) = Head(s))
              /\ LikeMatch(Tail(p), Tail(s))

\* SQL `title ILIKE '%' || q || '%'`, the search_pattern of both handlers
TitleILike(title, q) == LikeMatch(<<"%">> \o Lower(q) \o <<"%">>, Lower(title))

(***************************************************************************)
(* difflib.SequenceMatcher (no junk: the strings are far below the         *)
(* autojunk length)                                                        *)
(***************************************************************************)
\* length of the common prefix of a[i:ahi] and b[j:bhi]
RECURSIVE MatchLen(_, _, _, _, _, _)
MatchLen(a, b, i, j, ahi, bhi) ==
    IF i < ahi /\ j < bhi /\ a[i + 1] = b[j + 1]
    THEN 1 + MatchLen(a, b, i + 1, j + 1, ahi, bhi)
    ELSE 0

Max(S) == CHOOSE x \in S : \A y \in S : y <= x
Min(S) == CHOOSE x \in S : \A y \in S : x <= y

\* find_longest_match: the longest block, of those the one starting earliest
\* in a, of those the one starting earliest in b; <<alo, blo, 0>> if none.
FindLongestMatch(a, b, alo, ahi, blo, bhi) ==
    IF alo >= ahi \/ blo >= bhi THEN <<alo, blo, 0>>
    ELSE LET k == Max({MatchLen(a, b, i, j, ahi, bhi) :
                          i \in alo..(ahi - 1), j \in blo..(bhi - 1)})
         IN  IF k = 0 THEN <<alo, blo, 0>>
             ELSE LET i == Min({x \in alo..(ahi - 1) :
                                  \E y \in blo..(bhi - 1) :
                                      MatchLen(a, b, x, y, ahi, bhi) = k})
                      j == Min({y \in blo..(bhi - 1) :
                                  MatchLen(a, b, i, y, ahi, bhi) = k})
                  IN  <<i, j, k>>

\* get_matching_blocks without the closing dummy block, in increasing order
RECURSIVE Blocks(_, _, _, _, _, _)
Blocks(a, b, alo, ahi, blo, bhi) ==
    LET m == FindLongestMatch(a, b, alo, ahi, blo, bhi)
    IN  IF m[3] = 0 THEN <<>>
        ELSE Blocks(a, b, alo, m[1], blo, m[2])
               \o <<m>>
               \o Blocks(a, b, m[1] + m[3], ahi, m[2] + m[3], bhi)

\* get_matching_blocks: the blocks and the dummy <<len(a), len(b), 0>>
MatchingBlocks(a, b) ==
    Blocks(a, b, 0, Len(a), 0, Len(b)) \o << <<Len(a), Len(b), 0>> >>

RECURSIVE SumSizes(_)
SumSizes(blocks) ==
    IF blocks = <<>> THEN 0 ELSE Head(blocks)[3] + SumSizes(Tail(blocks))

\* number of matched characters, the M of ratio() = 2.0*M / T
Matches(a, b) == SumSizes(MatchingBlocks(a, b))

\* utils.intr(100 * (2.0*M/T)): int(round(x)), round half to even
Intr100(m, t) ==
    LET n == 200 * m
        q == n \div t
        r == n % t
    IN  IF 2 * r < t THEN q
        ELSE IF 2 * r > t THEN q + 1
        ELSE IF q % 2 = 0 THEN q ELSE q + 1

(***************************************************************************)
(* fuzzywuzzy.fuzz                                                         *)
(***************************************************************************)
\* fuzz.ratio
Ratio(s1, s2) ==
    IF s1 = s2 THEN 100
    ELSE IF Len(s1) = 0 \/ Len(s2) = 0 THEN 0
    ELSE Intr100(Matches(s1, s2), Len(s1) + Len(s2))

\* the window of `longer` that partial_ratio aligns with a matching block
BlockWindow(shorter, longer, block) ==
    LET d     == block[2] - block[1]
        start == IF d > 0 THEN d ELSE 0
    IN  Slice(longer, start, start + Len(shorter))

\* fuzz.partial_ratio
PartialRatio(s1, s2) ==
    IF s1 = s2 THEN 100
    ELSE IF Len(s1) = 0 \/ Len(s2) = 0 THEN 0
    ELSE LET shorter == IF Len(s1) <= Len(s2) THEN s1 ELSE s2
             longer  == IF Len(s1) <= Len(s2) THEN s2 ELSE s1
             blocks  == MatchingBlocks(shorter, longer)
             wins    == {BlockWindow(shorter, longer, blocks[n]) : n \in 1..Len(blocks)}
             \* r > .995 returns 100; no ratio of strings this short lies in (.995, 1)
         IN  IF \E w \in wins : Matches(shorter, w) * 2 = Len(shorter) + Len(w)
             THEN 100
             ELSE Max({Intr100(Matches(shorter, w), Len(shorter) + Len(w)) : w \in wins})

\* utils.full_process: non-word characters to blanks, lower case, strip
FullProcess(s) ==
    Strip([i \in 1..Len(s) |->
             IF IsIn(WordChars, LowerChar(s[i])) THEN LowerChar(s[i]) ELSE " "])

\* str.split(): the maximal runs of non-blank characters
RECURSIVE Split(_)
Split(s) ==
    LET t == LStrip(s)
    IN  IF t = <<>> THEN <<>>
        ELSE LET n == IF \E i \in 1..Len(t) : t[i] = " "
                      THEN Min({i \in 1..Len(t) : t[i] = " "}) - 1
                      ELSE Len(t)
             IN  <<SubSeq(t, 1, n)>> \o Split(SubSeq(t, n + 1, Len(t)))

\* Python's string order: code point by code point, a prefix first
RECURSIVE StrLess(_, _)
StrLess(x, y) ==
    IF y = <<>> THEN FALSE
    ELSE IF x = <<>> THEN TRUE
    ELSE IF Head(x) = Head(y) THEN StrLess(Tail(x), Tail(y))
    ELSE IndexOf(AsciiChars, Head(x)) < IndexOf(AsciiChars, Head(y))

\* insert a token into a sorted token list
RECURSIVE InsertToken(_, _)
InsertToken(tok, toks) ==
    IF toks = <<>> THEN <<tok>>
    ELSE IF StrLess(Head(toks), tok) THEN <<Head(toks)>> \o InsertToken(tok, Tail(toks))
    ELSE <<tok>> \o toks

\* sorted(tokens)
RECURSIVE SortTokens(_)
SortTokens(toks) ==
    IF toks = <<>> THEN <<>> ELSE InsertToken(Head(toks), SortTokens(Tail(toks)))

\* " ".join(tokens)
RECURSIVE Join(_)
Join(toks) ==
    IF toks = <<>> THEN <<>>
    ELSE IF Len(toks) = 1 THEN Head(toks)
    ELSE Head(toks) \o <<" ">> \o Join(Tail(toks))

\* fuzz._process_and_sort
ProcessAndSort(s) == Strip(Join(SortTokens(Split(FullProcess(s)))))

\* fuzz.token_sort_ratio
TokenSortRatio(s1, s2) == Ratio(ProcessAndSort(s1), ProcessAndSort(s2))


(***************************************************************************)
(* The store: the rows of table `properties`                               *)
(***************************************************************************)
\* a geography point of the table, as its distance in millimetres to each
\* landmark of location_map (what ST_Distance computes for it)
Points == {"g0", "g1", "g2", "g3", "g4"}

\* the points of a densely built neighbourhood of landmark 'mrt surian', the
\* n-th of them 10 n metres from it
CrowdPoints ==
    << "p01", "p02", "p03", "p04", "p05", "p06", "p07", "p08", "p09", "p10",
       "p11", "p12", "p13", "p14", "p15", "p16", "p17", "p18", "p19", "p20",
       "p21", "p22", "p23", "p24", "p25", "p26", "p27", "p28", "p29", "p30",
       "p31", "p32", "p33", "p34", "p35", "p36", "p37", "p38", "p39", "p40",
       "p41", "p42", "p43", "p44", "p45", "p46", "p47", "p48", "p49", "p50",
       "p51", "p52", "p53", "p54", "p55", "p56", "p57", "p58", "p59", "p60" >>

\* the place of a point of the neighbourhood in CrowdPoints
CrowdRank(point) == CHOOSE n \in 1..Len(CrowdPoints) : CrowdPoints[n] = point

DistanceMM(point, landmark) ==
    CASE point = "g0" -> IF landmark = "mrt surian" THEN 0       ELSE 6443000
      [] point = "g1" -> IF landmark = "mrt surian" THEN 4       ELSE 6442990
      [] point = "g2" -> IF landmark = "mrt surian" THEN 1500006 ELSE 5100000
      [] point = "g3" -> IF landmark = "mrt surian" THEN 5000000 ELSE 4999999
      [] point = "g4" -> IF landmark = "mrt surian" THEN 5000001 ELSE 1200000
      [] OTHER        -> IF landmark = "mrt surian" THEN 10000 * CrowdRank(point)
                         ELSE 6000000 + 10000 * CrowdRank(point)

\* geom IS NULL
NullGeom == "null"

Row(title, ptype, geom) == [title |-> title, ptype |-> ptype, geom |-> geom]

\* The rows stores are drawn from.  A title can occur in several rows.
Catalogue ==
    << Row(<<"A","b"," ","C","d">>, "commercial", "g3"),
       Row(<<"A","b"," ","C","d">>, "apartment", "g4"),
       Row(<<"b","a">>, "condominium", "g1"),
       Row(<<"S","u","r","i","a","n"," ","M","r","t">>, "house", "g0"),
       Row(<<"B","a","y"," ","H","o","u","s","e">>, "house", NullGeom),
       Row(<<"N","e","a","r"," ","B","a","y">>, "apartment", "g2"),
       Row(<<"B"," ","A">>, "apartment", "g3") >>

\* the most rows a store holds
MaxRows == 6

\* a store is a run of at most MaxRows consecutive catalogue rows
Stores ==
    {SubSeq(Catalogue, i, j) :
        <<i, j>> \in {p \in (1..(Len(Catalogue) + 1)) \X (0..Len(Catalogue)) :
                        p[2] >= p[1] - 1 /\ p[2] - p[1] + 1 <= MaxRows}}

\* the title of the n-th listing of the neighbourhood
CrowdTitle(n) == <<"L", DigitChars[(n \div 10) + 1], DigitChars[(n % 10) + 1]>>

\* the listing at the n-th nearest point of the neighbourhood: the nearest
\* two are one development listed under two types, the next two one
\* development listed twice, and past the 50 nearest, all houses, every
\* other listing is an apartment
CrowdRow(n) ==
    Row(CrowdTitle(IF n = 2 THEN 1 ELSE IF n = 4 THEN 3 ELSE n),
        IF n = 1 THEN "condominium"
        ELSE IF n > 50 /\ n % 2 = 1 THEN "apartment"
        ELSE "house",
        CrowdPoints[n])

\* the most rows the table of the neighbourhood holds
CrowdRows == 52

\* the table of the n nearest listings, the farthest first in the heap
Crowd(n) == [k \in 1..n |-> CrowdRow(n + 1 - k)]

\* the stores of the runs over the neighbourhood
CrowdedStores == {Crowd(n) : n \in (CrowdRows - 2)..CrowdRows}

\* the values of request parameter q sent to /autocomplete
AutocompleteQueries ==
    { <<>>,
      <<" ","a"," ">>,
      <<"a","b">>,
      <<"_","t">> }

\* the values of request parameter q sent to /search
SearchQueries ==
    { <<>>,
      <<"a","b"," ">>,
      <<"%","a","%">>,
      <<"H","o","u","s","e">>,
      <<"a","b"," ","c","d">>,
      <<"n","e","a","r"," ","b","a","y">>,
      <<"m","r","t"," ","s","u","r","i","a","n">>,
      <<"H","o","u","s","e"," ","N","e","a","r"," ","M","R","T"," ","S","u","r","i","a","n"," ">>,
      <<"m","r","t"," ","s","u","n","g","a","i"," ","b","u","l","o","h">>,
      <<"c","o","n","d","o"," ","n","e","a","r"," ","m","r","t"," ","s","u","r","i","a","n">>,
      <<"a","p","a","r","t","m","e","n","t"," ","h","o","u","s","e"," ",
        "m","r","t"," ","s","u","r","i","a","n">> }

(***************************************************************************)
(* Sequences                                                               *)
(***************************************************************************)
\* s[:n]
Take(s, n) == IF Len(s) <= n THEN s ELSE SubSeq(s, 1, n)

\* every order in which the elements of a finite set can be listed
RECURSIVE Perms(_)
Perms(S) ==
    IF S = {} THEN {<<>>}
    ELSE UNION {{<<x>> \o p : p \in Perms(S \ {x})} : x \in S}

SeqRange(s) == {s[i] : i \in 1..Len(s)}

(***************************************************************************)
(* Ranking shared by both handlers                                         *)
(***************************************************************************)
\* priority_order
PriorityOrder == [apartment |-> 1, house |-> 2, condominium |-> 3]

\* Priority whose default for an unlisted type is 0
PriorityDefaultZero(ptype) ==
    IF ptype \in DOMAIN PriorityOrder THEN PriorityOrder[ptype] ELSE 0

\* priority_order.get(prop_type, 4)
Priority(ptype) == IF ptype \in DOMAIN PriorityOrder THEN PriorityOrder[ptype] ELSE 4

\* the number of suggestions a handler returns at most
TopN == 5

\* LIMIT of the retrieval queries
QueryLimit == 50

\* the titles of a list of entries
Titles(entries) == {entries[i].title : i \in 1..Len(entries)}

(***************************************************************************)
(* /autocomplete                                                           *)
(***************************************************************************)
\* AcRejects without the length test: only the empty query is refused
AcRejectsEmptyOnly(q) == q = <<>>

\* `not query or len(query) < 2`
AcRejects(q) == q = <<>> \/ Len(q) < 2

\* SELECT DISTINCT title, property_type FROM properties
AllPairs(st) == {<<st[i].title, st[i].ptype>> : i \in 1..Len(st)}

\* SELECT DISTINCT title, property_type FROM properties WHERE title ILIKE %q%
IlikePairs(st, q) == {p \in AllPairs(st) : TitleILike(p[1], q)}

\* AcIlikeEntry without the boost to 70
AcIlikeEntryUnboosted(q, row) ==
    [title    |-> row[1],
     type     |-> row[2],
     score    |-> PartialRatio(Lower(q), Lower(row[1])),
     priority |-> Priority(row[2])]

\* the entry of a row found by ILIKE: partial ratio, boosted to 70
AcIlikeEntry(q, row) ==
    [title    |-> row[1],
     type     |-> row[2],
     score    |-> Max({PartialRatio(Lower(q), Lower(row[1])), 70}),
     priority |-> Priority(row[2])]

\* max_score of a row of the fuzzy pool
AcMaxScore(q, title) ==
    Max({Ratio(Lower(q), Lower(title)),
         PartialRatio(Lower(q), Lower(title)),
         TokenSortRatio(Lower(q), Lower(title))})

\* the entry of a row admitted by fuzzy matching
AcFuzzyEntry(q, row) ==
    [title    |-> row[1],
     type     |-> row[2],
     score    |-> AcMaxScore(q, row[1]),
     priority |-> Priority(row[2])]

\* combined_results[title] = entry: a dict keeps the position of a key it
\* already holds and appends a new key
DictPut(d, entry) ==
    IF \E i \in 1..Len(d) : d[i].title = entry.title
    THEN LET i == CHOOSE k \in 1..Len(d) : d[k].title = entry.title
         IN  [d EXCEPT ![i] = entry]
    ELSE Append(d, entry)

\* the loop over ilike_results
RECURSIVE AddIlike(_, _, _)
AddIlike(d, rows, q) ==
    IF rows = <<>> THEN d
    ELSE AddIlike(DictPut(d, AcIlikeEntry(q, Head(rows))), Tail(rows), q)

\* AcSkips that never skips: a fuzzy row overwrites the ILIKE entry
AcSkipsNever(d, title) == FALSE

\* `if title in combined_results: continue`
AcSkips(d, title) == title \in Titles(d)

\* AcAdmits without the threshold
AcAdmitsAll(q, title) == TRUE

\* `if max_score >= 40`
AcAdmits(q, title) == AcMaxScore(q, title) >= 40

\* the loop over all_properties
RECURSIVE AddFuzzy(_, _, _)
AddFuzzy(d, rows, q) ==
    IF rows = <<>> THEN d
    ELSE LET row == Head(rows)
         IN  IF AcSkips(d, row[1]) THEN AddFuzzy(d, Tail(rows), q)
             ELSE IF AcAdmits(q, row[1])
                  THEN AddFuzzy(DictPut(d, AcFuzzyEntry(q, row)), Tail(rows), q)
                  ELSE AddFuzzy(d, Tail(rows), q)

\* list(combined_results.values())
CombinedResults(q, ilike, all) == AddFuzzy(AddIlike(<<>>, ilike, q), all, q)

\* AcKeyLess with the scores of one priority in ascending order
AcKeyLessAscending(x, y) ==
    \/ x.priority < y.priority
    \/ x.priority = y.priority /\ x.score < y.score

\* AcKeyLess that forgets the priority
AcKeyLessByScore(x, y) == x.score > y.score

\* key=lambda x: (x['priority'], -x['score'])
AcKeyLess(x, y) ==
    \/ x.priority < y.priority
    \/ x.priority = y.priority /\ x.score > y.score

\* list.sort is stable: an element goes behind the elements it is not less than
\* AcInsert that puts an element before the elements with its key
RECURSIVE AcInsertBeforeEquals(_, _)
AcInsertBeforeEquals(x, sorted) ==
    IF sorted = <<>> THEN <<x>>
    ELSE IF ~AcKeyLess(Head(sorted), x) THEN <<x>> \o sorted
    ELSE <<Head(sorted)>> \o AcInsertBeforeEquals(x, Tail(sorted))

RECURSIVE AcInsert(_, _)
AcInsert(x, sorted) ==
    IF sorted = <<>> THEN <<x>>
    ELSE IF AcKeyLess(x, Head(sorted)) THEN <<x>> \o sorted
    ELSE <<Head(sorted)>> \o AcInsert(x, Tail(sorted))

\* scored_results.sort(key=...)
RECURSIVE AcSort(_)
AcSort(s) ==
    IF s = <<>> THEN <<>>
    ELSE AcInsert(s[Len(s)], AcSort(SubSeq(s, 1, Len(s) - 1)))

\* AcSuggestions without the slice [:5]
AcSuggestionsUncut(scored) ==
    [i \in 1..Len(scored) |->
        [title |-> scored[i].title, type |-> scored[i].type, score |-> scored[i].score]]

\* AcSuggestions that slices the last 5 instead of the first
AcSuggestionsLast(scored) ==
    [i \in 1..Len(Take(scored, TopN)) |->
        [title |-> scored[Len(scored) - Len(Take(scored, TopN)) + i].title,
         type  |-> scored[Len(scored) - Len(Take(scored, TopN)) + i].type,
         score |-> scored[Len(scored) - Len(Take(scored, TopN)) + i].score]]

\* the suggestions of scored_results[:5]
AcSuggestions(scored) ==
    [i \in 1..Len(Take(scored, TopN)) |->
        [title |-> scored[i].title, type |-> scored[i].type, score |-> scored[i].score]]

(***************************************************************************)
(* /search                                                                 *)
(***************************************************************************)
\* `not query or len(query) < 3`
SeRejects(q) == q = <<>> \/ Len(q) < 3

\* TypeMap in which 'condo' stands for condominium alone
TypeMapCondoAlone ==
    << << <<"c","o","n","d","o">>, <<"condominium">> >>,
       << <<"a","p","a","r","t","m","e","n","t">>, <<"apartment">> >>,
       << <<"h","o","u","s","e">>, <<"house">> >> >>

\* type_map, in the order of the dict
TypeMap ==
    << << <<"c","o","n","d","o">>, <<"apartment", "condominium">> >>,
       << <<"a","p","a","r","t","m","e","n","t">>, <<"apartment">> >>,
       << <<"h","o","u","s","e">>, <<"house">> >> >>

\* location_map, in the order of the dict; a coordinate pair is named by its landmark
LocationMap ==
    << << <<"m","r","t"," ","s","u","r","i","a","n">>, "mrt surian" >>,
       << <<"m","r","t"," ","s","u","n","g","a","i"," ","b","u","l","o","h">>,
          "mrt sungai buloh" >> >>

\* coords = None
NoCoords == "none"

\* the loop over type_map
RECURSIVE ExtendTypes(_, _)
ExtendTypes(q, map) ==
    IF map = <<>> THEN <<>>
    ELSE (IF Contains(Head(map)[1], q) THEN Head(map)[2] ELSE <<>>)
           \o ExtendTypes(q, Tail(map))

\* property_types, with the default when no keyword occurs
PropertyTypes(q) ==
    IF ExtendTypes(q, TypeMap) = <<>>
    THEN <<"apartment", "house", "condominium">>
    ELSE ExtendTypes(q, TypeMap)

\* the loop over location_map: the first landmark occurring in the query
RECURSIVE ResolveLocation(_, _)
ResolveLocation(q, map) ==
    IF map = <<>> THEN NoCoords
    ELSE IF Contains(Head(map)[1], q) THEN Head(map)[2]
    ELSE ResolveLocation(q, Tail(map))

\* NearUnresolved that never holds: the handler goes on to the text query
NearIgnored(q, c) == FALSE

\* `'near' in query and coords is None`
NearUnresolved(q, c) == Contains(<<"n","e","a","r">>, q) /\ c = NoCoords

\* every list of the elements of S in non-decreasing order of key
RECURSIVE OrderedLists(_, _)
OrderedLists(S, key) ==
    IF S = {} THEN {<<>>}
    ELSE UNION {{<<x>> \o p : p \in OrderedLists(S \ {x}, key)} :
                  x \in {y \in S : \A z \in S : key[y] <= key[z]}}

\* WithinRadius without the radius: every located row passes
WithinRadiusAlways(point, landmark) == TRUE

\* ST_DWithin(geom, point, 5000), in millimetres
WithinRadius(point, landmark) == DistanceMM(point, landmark) <= 5000000

\* the rows the spatial query selects, as indices into the table
SpatialRows(st, types, landmark) ==
    {i \in 1..Len(st) :
        /\ st[i].ptype \in SeqRange(types)
        /\ st[i].geom # NullGeom
        /\ WithinRadius(st[i].geom, landmark)}

\* SpatialResults without the LIMIT
SpatialResultsUncapped(st, types, landmark) ==
    LET S   == SpatialRows(st, types, landmark)
        key == [i \in S |-> DistanceMM(st[i].geom, landmark)]
    IN  {[n \in 1..Len(o) |-> <<st[o[n]].title, st[o[n]].ptype, {key[o[n]]}>>] :
           o \in OrderedLists(S, key)}

\* the results the spatial query can return: ORDER BY distance_meters LIMIT 50
SpatialResults(st, types, landmark) ==
    LET S   == SpatialRows(st, types, landmark)
        key == [i \in S |-> DistanceMM(st[i].geom, landmark)]
    IN  {[n \in 1..Len(Take(o, QueryLimit)) |->
            <<st[o[n]].title, st[o[n]].ptype, {key[o[n]]}>>] : o \in OrderedLists(S, key)}

\* the rows the text query selects, as indices into the table
TextRows(st, types, q) ==
    {i \in 1..Len(st) : st[i].ptype \in SeqRange(types) /\ TitleILike(st[i].title, q)}

\* the results the text query can return: ORDER BY title LIMIT 50, the
\* distance NULL
TextResults(st, types, q) ==
    LET S   == TextRows(st, types, q)
        key == [i \in S |-> Cardinality({j \in S : StrLess(st[j].title, st[i].title)})]
    IN  {[n \in 1..Len(Take(o, QueryLimit)) |->
            <<st[o[n]].title, st[o[n]].ptype, {}>>] : o \in OrderedLists(S, key)}

\* round(distance, 2): millimetres to centimetres, half to even
Round2(mm) ==
    LET q == mm \div 10
        r == mm % 10
    IN  IF r < 5 THEN q
        ELSE IF r > 5 THEN q + 1
        ELSE IF q % 2 = 0 THEN q ELSE q + 1

\* `round(distance, 2) if distance else None`: NULL and 0.0 are falsy.
\* A distance is the empty set (None) or the set of its value.
DistanceMeters(distance) ==
    IF distance = {} \/ distance = {0} THEN {}
    ELSE {Round2(CHOOSE d \in distance : TRUE)}

\* max_score of a retrieved row
SeMaxScore(q, title) ==
    Max({Ratio(q, Lower(title)), PartialRatio(q, Lower(title))})

\* the entry appended to scored_results for a retrieved row
SeEntry(q, row) ==
    [title           |-> row[1],
     type            |-> row[2],
     distance_meters |-> DistanceMeters(row[3]),
     score           |-> SeMaxScore(q, row[1]),
     priority        |-> Priority(row[2])]

\* DistLess with the order of the distances reversed
DistLessReversed(a, b) ==
    a # {} /\ (b = {} \/ (CHOOSE d \in a : TRUE) > (CHOOSE d \in b : TRUE))

\* x['distance_meters'] if x['distance_meters'] is not None else float('inf')
DistLess(a, b) ==
    a # {} /\ (b = {} \/ (CHOOSE d \in a : TRUE) < (CHOOSE d \in b : TRUE))

\* key=lambda x: (x['priority'], -x['score'], distance or inf)
SeKeyLess(x, y) ==
    \/ x.priority < y.priority
    \/ x.priority = y.priority /\ x.score > y.score
    \/ x.priority = y.priority /\ x.score = y.score
         /\ DistLess(x.distance_meters, y.distance_meters)

RECURSIVE SeInsert(_, _)
SeInsert(x, sorted) ==
    IF sorted = <<>> THEN <<x>>
    ELSE IF SeKeyLess(x, Head(sorted)) THEN <<x>> \o sorted
    ELSE <<Head(sorted)>> \o SeInsert(x, Tail(sorted))

\* SeSort that leaves the rows in retrieval order
SeSortNone(s) == s

\* scored_results.sort(key=...)
RECURSIVE SeSort(_)
SeSort(s) ==
    IF s = <<>> THEN <<>>
    ELSE SeInsert(s[Len(s)], SeSort(SubSeq(s, 1, Len(s) - 1)))

\* SeKeeps that also asks for the score the autocomplete pool asks for
SeKeepsScored(acc, entry) ==
    entry.title \notin Titles(acc) /\ Len(acc) < TopN /\ entry.score >= 40

\* `result['title'] not in seen_titles and len(suggestions) < 5`
SeKeeps(acc, entry) == entry.title \notin Titles(acc) /\ Len(acc) < TopN

\* SeSuggestionsFrom that appends the candidate as it is
RECURSIVE SeSuggestionsFromWhole(_, _)
SeSuggestionsFromWhole(scored, acc) ==
    IF scored = <<>> THEN acc
    ELSE IF SeKeeps(acc, Head(scored))
         THEN SeSuggestionsFromWhole(Tail(scored), Append(acc, Head(scored)))
         ELSE SeSuggestionsFromWhole(Tail(scored), acc)

\* the loop building suggestions
RECURSIVE SeSuggestionsFrom(_, _)
SeSuggestionsFrom(scored, acc) ==
    IF scored = <<>> THEN acc
    ELSE LET e == Head(scored)
         IN  IF SeKeeps(acc, e)
             THEN SeSuggestionsFrom(Tail(scored),
                     Append(acc, [title |-> e.title, type |-> e.type,
                                  distance_meters |-> e.distance_meters]))
             ELSE SeSuggestionsFrom(Tail(scored), acc)

SeSuggestions(scored) == SeSuggestionsFrom(scored, <<>>)

(***************************************************************************)
(* State                                                                   *)
(***************************************************************************)
VARIABLES
    store,            \* table `properties`, in heap order
    pc,               \* where the request in progress stands; a return
                      \* statement once the handler has answered
    op,               \* the handler serving it: "autocomplete", "search" or "none"
    rawq,             \* request.args.get('q', '')
    query,            \* the handler's local `query`
    conn,             \* the request's connection: "none", "open" or "closed"
    executed,         \* the cursor.execute calls the store has run for the request
    all_properties,   \* autocomplete: rows of the first query
    ilike_results,    \* autocomplete: rows of the ILIKE query
    property_types,   \* search: the derived type filter
    coords,           \* search: the resolved landmark, or NoCoords
    raw_results,      \* search: rows of the retrieval query
    scored_results,   \* the sorted candidates
    response,         \* what the handler returned
    previous,         \* what the same request was answered when the client
                      \* sent it the time before; NoResponse for a new request
    other             \* the handler frame of the request served by the other
                      \* thread, suspended while this one runs

vars == <<store, pc, op, rawq, query, conn, executed, all_properties, ilike_results,
          property_types, coords, raw_results, scored_results, response, previous,
          other>>

locals == <<all_properties, ilike_results, property_types, coords, raw_results,
            scored_results>>

\* an exception leaves the try block: nothing retrieved so far is used again
Unwind ==
    /\ all_properties' = <<>>
    /\ ilike_results' = <<>>
    /\ property_types' = <<>>
    /\ coords' = NoCoords
    /\ raw_results' = <<>>
    /\ scored_results' = <<>>

\* jsonify(list) with status 200
ListResponse(items) == [status |-> 200, kind |-> "list", items |-> items]

\* jsonify({'error': 'Internal server error'}), 500
ErrorResponse == [status |-> 500, kind |-> "error", items |-> <<>>]

NoResponse == [status |-> 0, kind |-> "none", items |-> <<>>]

\* the return statements of the handlers, as values of pc
AcReturns == {"ac_ret_short", "ac_ret_ok", "ac_ret_error"}
SeReturns == {"se_ret_short", "se_ret_noconn", "se_ret_unresolved", "se_ret_ok",
              "se_ret_dberror", "se_ret_error"}

\* the handler has returned its response
Done == pc \in AcReturns \cup SeReturns

\* the local variables of a handler that has not started
IdleFrame ==
    [pc |-> "idle", op |-> "none", rawq |-> <<>>, query |-> <<>>, conn |-> "none",
     executed |-> 0, all_properties |-> <<>>, ilike_results |-> <<>>,
     property_types |-> <<>>, coords |-> NoCoords, raw_results |-> <<>>,
     scored_results |-> <<>>, response |-> NoResponse]

Init ==
    /\ store \in Stores
    /\ pc = "idle"
    /\ op = "none"
    /\ rawq = <<>>
    /\ query = <<>>
    /\ conn = "none"
    /\ executed = 0
    /\ all_properties = <<>>
    /\ ilike_results = <<>>
    /\ property_types = <<>>
    /\ coords = NoCoords
    /\ raw_results = <<>>
    /\ scored_results = <<>>
    /\ response = NoResponse
    /\ previous = NoResponse
    /\ other = IdleFrame

(***************************************************************************)
(* /autocomplete, step by step                                             *)
(***************************************************************************)
\* the request arrives; a query shorter than 2 after strip() is answered []
AutocompleteBegin(raw) ==
    /\ pc = "idle"
    /\ op' = "autocomplete"
    /\ rawq' = raw
    /\ query' = Strip(raw)
    /\ IF AcRejects(Strip(raw))
       THEN pc' = "ac_ret_short" /\ response' = ListResponse(<<>>)
       ELSE pc' = "ac_connect" /\ UNCHANGED response
    /\ UNCHANGED <<store, previous, other, conn, executed, locals>>

\* get_db_connection() and conn.cursor() succeed
AcConnect ==
    /\ pc = "ac_connect"
    /\ conn' = "open"
    /\ pc' = "ac_all"
    /\ UNCHANGED <<store, previous, other, op, rawq, query, executed, locals, response>>

\* get_db_connection() raises: the handler's except answers the error payload
AcConnectFails ==
    /\ pc = "ac_connect"
    /\ response' = ErrorResponse
    /\ pc' = "ac_ret_error"
    /\ UNCHANGED <<store, previous, other, op, rawq, query, conn, executed, locals>>

\* the first query: every distinct (title, property_type), in any order
AcFetchAll ==
    /\ pc = "ac_all"
    /\ \E rows \in Perms(AllPairs(store)) : all_properties' = rows
    /\ executed' = executed + 1
    /\ pc' = "ac_ilike"
    /\ UNCHANGED <<store, previous, other, op, rawq, query, conn, ilike_results, property_types, coords,
                   raw_results, scored_results, response>>

\* the ILIKE query: up to 50 of the matching pairs, in any order; then
\* cursor.close() and conn.close()
AcFetchIlike ==
    /\ pc = "ac_ilike"
    /\ \E rows \in Perms(IlikePairs(store, query)) :
          ilike_results' = Take(rows, QueryLimit)
    /\ executed' = executed + 1
    /\ conn' = "closed"
    /\ pc' = "ac_rank"
    /\ UNCHANGED <<store, previous, other, op, rawq, query, all_properties, property_types, coords,
                   raw_results, scored_results, response>>

\* a cursor.execute raises: the except answers the error payload and closes nothing
AcQueryFails ==
    /\ pc \in {"ac_all", "ac_ilike"}
    /\ response' = ErrorResponse
    /\ pc' = "ac_ret_error"
    /\ Unwind
    /\ UNCHANGED <<store, previous, other, op, rawq, query, conn, executed>>

\* scoring, sorting and the top 5
AcRank ==
    /\ pc = "ac_rank"
    /\ scored_results' = AcSort(CombinedResults(query, ilike_results, all_properties))
    /\ response' = ListResponse(AcSuggestions(scored_results'))
    /\ pc' = "ac_ret_ok"
    /\ UNCHANGED <<store, previous, other, op, rawq, query, conn, executed, all_properties, ilike_results,
                   property_types, coords, raw_results>>

\* an exception after the connection is closed: the except answers the error payload
AcRankFails ==
    /\ pc = "ac_rank"
    /\ response' = ErrorResponse
    /\ pc' = "ac_ret_error"
    /\ Unwind
    /\ UNCHANGED <<store, previous, other, op, rawq, query, conn, executed>>

(***************************************************************************)
(* /search, step by step                                                   *)
(***************************************************************************)
\* SearchBegin that opens the connection before it looks at the query
SearchBeginConnectsFirst(raw) ==
    /\ pc = "idle"
    /\ op' = "search"
    /\ rawq' = raw
    /\ query' = Lower(Strip(raw))
    /\ conn' = "open"
    /\ IF SeRejects(Lower(Strip(raw)))
       THEN pc' = "se_ret_short" /\ response' = ListResponse(<<>>)
       ELSE pc' = "se_parse" /\ UNCHANGED response
    /\ UNCHANGED <<store, previous, other, executed, locals>>

\* the request arrives; a query shorter than 3 after strip().lower() is answered []
SearchBegin(raw) ==
    /\ pc = "idle"
    /\ op' = "search"
    /\ rawq' = raw
    /\ query' = Lower(Strip(raw))
    /\ IF SeRejects(Lower(Strip(raw)))
       THEN pc' = "se_ret_short" /\ response' = ListResponse(<<>>)
       ELSE pc' = "se_connect" /\ UNCHANGED response
    /\ UNCHANGED <<store, previous, other, conn, executed, locals>>

\* get_db_connection() and conn.cursor() succeed
SeConnect ==
    /\ pc = "se_connect"
    /\ conn' = "open"
    /\ pc' = "se_parse"
    /\ UNCHANGED <<store, previous, other, op, rawq, query, executed, locals, response>>

\* get_db_connection() raises: answered []
SeConnectFails ==
    /\ pc = "se_connect"
    /\ response' = ListResponse(<<>>)
    /\ pc' = "se_ret_noconn"
    /\ UNCHANGED <<store, previous, other, op, rawq, query, conn, executed, locals>>

\* the type filter and the landmark; 'near' without a landmark closes the
\* connection and is answered []
SeParse ==
    /\ pc = "se_parse"
    /\ property_types' = PropertyTypes(query)
    /\ coords' = ResolveLocation(query, LocationMap)
    /\ IF NearUnresolved(query, coords')
       THEN conn' = "closed" /\ response' = ListResponse(<<>>) /\ pc' = "se_ret_unresolved"
       ELSE pc' = "se_query" /\ UNCHANGED <<conn, response>>
    /\ UNCHANGED <<store, previous, other, op, rawq, query, executed, all_properties, ilike_results,
                   raw_results, scored_results>>

\* SeQuery that takes the spatial path only for a query that says 'near'
SeQueryNearOnly ==
    /\ pc = "se_query"
    /\ IF coords # NoCoords /\ Contains(<<"n","e","a","r">>, query)
       THEN \E rows \in SpatialResults(store, property_types, coords) : raw_results' = rows
       ELSE \E rows \in TextResults(store, property_types, query) : raw_results' = rows
    /\ executed' = executed + 1
    /\ conn' = "closed"
    /\ pc' = "se_rank"
    /\ UNCHANGED <<store, previous, other, op, rawq, query, all_properties, ilike_results,
                   property_types, coords, scored_results, response>>

\* SeQuery that deletes the last row of the table after reading
SeQueryConsuming ==
    /\ pc = "se_query"
    /\ IF coords # NoCoords
       THEN \E rows \in SpatialResults(store, property_types, coords) : raw_results' = rows
       ELSE \E rows \in TextResults(store, property_types, query) : raw_results' = rows
    /\ store' = SubSeq(store, 1, Len(store) - 1)
    /\ executed' = executed + 1
    /\ conn' = "closed"
    /\ pc' = "se_rank"
    /\ UNCHANGED <<previous, other, op, rawq, query, all_properties, ilike_results, property_types,
                   coords, scored_results, response>>

\* the retrieval query, spatial when a landmark was resolved and by text
\* otherwise; then cursor.close() and conn.close()
SeQuery ==
    /\ pc = "se_query"
    /\ IF coords # NoCoords
       THEN \E rows \in SpatialResults(store, property_types, coords) : raw_results' = rows
       ELSE \E rows \in TextResults(store, property_types, query) : raw_results' = rows
    /\ executed' = executed + 1
    /\ conn' = "closed"
    /\ pc' = "se_rank"
    /\ UNCHANGED <<store, previous, other, op, rawq, query, all_properties, ilike_results, property_types,
                   coords, scored_results, response>>

\* SeQueryFails that answers the error payload, as /autocomplete does
SeQueryFailsWithError ==
    /\ pc = "se_query"
    /\ conn' = "closed"
    /\ response' = ErrorResponse
    /\ pc' = "se_ret_dberror"
    /\ Unwind
    /\ UNCHANGED <<store, previous, other, op, rawq, query, executed>>

\* cursor.execute raises: the except closes the connection and answers []
SeQueryFails ==
    /\ pc = "se_query"
    /\ conn' = "closed"
    /\ response' = ListResponse(<<>>)
    /\ pc' = "se_ret_dberror"
    /\ Unwind
    /\ UNCHANGED <<store, previous, other, op, rawq, query, executed>>

\* scoring, sorting, de-duplication and the top 5
SeRank ==
    /\ pc = "se_rank"
    /\ scored_results' = SeSort([i \in 1..Len(raw_results) |-> SeEntry(query, raw_results[i])])
    /\ response' = ListResponse(SeSuggestions(scored_results'))
    /\ pc' = "se_ret_ok"
    /\ UNCHANGED <<store, previous, other, op, rawq, query, conn, executed, all_properties, ilike_results,
                   property_types, coords, raw_results>>

\* an exception after the connection is closed: answered []
SeRankFails ==
    /\ pc = "se_rank"
    /\ response' = ListResponse(<<>>)
    /\ pc' = "se_ret_error"
    /\ Unwind
    /\ UNCHANGED <<store, previous, other, op, rawq, query, conn, executed>>

\* the response is sent; the next request starts from a fresh handler frame
Finish ==
    /\ Done
    /\ pc' = "idle"
    /\ op' = "none"
    /\ rawq' = <<>>
    /\ query' = <<>>
    /\ conn' = "none"
    /\ executed' = 0
    /\ all_properties' = <<>>
    /\ ilike_results' = <<>>
    /\ property_types' = <<>>
    /\ coords' = NoCoords
    /\ raw_results' = <<>>
    /\ scored_results' = <<>>
    /\ response' = NoResponse
    /\ previous' = NoResponse
    /\ UNCHANGED <<store, other>>

Next ==
    \/ \E raw \in AutocompleteQueries : AutocompleteBegin(raw)
    \/ AcConnect
    \/ AcConnectFails
    \/ AcFetchAll
    \/ AcFetchIlike
    \/ AcQueryFails
    \/ AcRank
    \/ AcRankFails
    \/ \E raw \in SearchQueries : SearchBegin(raw)
    \/ SeConnect
    \/ SeConnectFails
    \/ SeParse
    \/ SeQuery
    \/ SeQueryFails
    \/ SeRank
    \/ SeRankFails
    \/ Finish

Spec == Init /\ [][Next]_vars

\* Switch that leaves `query` where it is, as if it were a module global
SwitchSharingQuery ==
    /\ other' = [pc |-> pc, op |-> op, rawq |-> rawq, query |-> query, conn |-> conn,
                 executed |-> executed, all_properties |-> all_properties,
                 ilike_results |-> ilike_results, property_types |-> property_types,
                 coords |-> coords, raw_results |-> raw_results,
                 scored_results |-> scored_results, response |-> response]
    /\ pc' = other.pc
    /\ op' = other.op
    /\ rawq' = other.rawq
    /\ conn' = other.conn
    /\ executed' = other.executed
    /\ all_properties' = other.all_properties
    /\ ilike_results' = other.ilike_results
    /\ property_types' = other.property_types
    /\ coords' = other.coords
    /\ raw_results' = other.raw_results
    /\ scored_results' = other.scored_results
    /\ response' = other.response
    /\ UNCHANGED <<store, previous, query>>

\* the server runs each request in a thread of its own: the running handler
\* is suspended with its local variables and the other thread's handler goes on
Switch ==
    /\ other' = [pc |-> pc, op |-> op, rawq |-> rawq, query |-> query, conn |-> conn,
                 executed |-> executed, all_properties |-> all_properties,
                 ilike_results |-> ilike_results, property_types |-> property_types,
                 coords |-> coords, raw_results |-> raw_results,
                 scored_results |-> scored_results, response |-> response]
    /\ pc' = other.pc
    /\ op' = other.op
    /\ rawq' = other.rawq
    /\ query' = other.query
    /\ conn' = other.conn
    /\ executed' = other.executed
    /\ all_properties' = other.all_properties
    /\ ilike_results' = other.ilike_results
    /\ property_types' = other.property_types
    /\ coords' = other.coords
    /\ raw_results' = other.raw_results
    /\ scored_results' = other.scored_results
    /\ response' = other.response
    /\ UNCHANGED <<store, previous>>

\* the tables of the runs with two requests in flight
MaxConcurrentRows == 2

InitConcurrent ==
    /\ Init
    /\ Len(store) <= MaxConcurrentRows

NextConcurrent ==
    \/ Next
    \/ Switch

\* two requests in flight over one store, their steps interleaved in any way
SpecConcurrent == InitConcurrent /\ [][NextConcurrent]_vars

InitCrowded ==
    /\ store \in CrowdedStores
    /\ pc = "idle"
    /\ op = "none"
    /\ rawq = <<>>
    /\ query = <<>>
    /\ conn = "none"
    /\ executed = 0
    /\ all_properties = <<>>
    /\ ilike_results = <<>>
    /\ property_types = <<>>
    /\ coords = NoCoords
    /\ raw_results = <<>>
    /\ scored_results = <<>>
    /\ response = NoResponse
    /\ previous = NoResponse
    /\ other = IdleFrame

NextCrowded ==
    \/ \E raw \in SearchQueries : SearchBegin(raw)
    \/ SeConnect
    \/ SeConnectFails
    \/ SeParse
    \/ SeQuery
    \/ SeQueryFails
    \/ SeRank
    \/ SeRankFails
    \/ Finish

\* /search requests one after the other over a table with more rows around
\* the landmark than the retrieval query returns
SpecCrowded == InitCrowded /\ [][NextCrowded]_vars

\* the client sends again the request that was just answered from the ranked
\* rows: the handler starts over on the same q, and the store is as it was
Repeat ==
    /\ pc \in {"ac_ret_ok", "se_ret_ok"}
    /\ previous' = response
    /\ query' = (IF op = "autocomplete" THEN Strip(rawq) ELSE Lower(Strip(rawq)))
    /\ pc' = (IF op = "autocomplete" THEN "ac_connect" ELSE "se_connect")
    /\ conn' = "none"
    /\ executed' = 0
    /\ Unwind
    /\ response' = NoResponse
    /\ UNCHANGED <<store, other, op, rawq>>

NextRepeat ==
    \/ Next
    \/ Repeat

\* requests one after the other, some of them repeated
SpecRepeat == Init /\ [][NextRepeat]_vars

(***************************************************************************)
(* Properties                                                              *)
(***************************************************************************)
EmptyList == [status |-> 200, kind |-> "list", items |-> <<>>]

\* the priority table of the specification
TablePriority(ptype) ==
    CASE ptype = "apartment" -> 1
      [] ptype = "house" -> 2
      [] ptype = "condominium" -> 3
      [] OTHER -> 4

\* the lexical score of the specification: the best of the three metrics of
\* the lower-cased query and title
LexicalScore(q, title) ==
    LET a == Lower(q)
        b == Lower(title)
        r == Ratio(a, b)
        p == PartialRatio(a, b)
        t == TokenSortRatio(a, b)
    IN  IF r >= p /\ r >= t THEN r ELSE IF p >= t THEN p ELSE t

IlikeTitles == {ilike_results[n][1] : n \in 1..Len(ilike_results)}

ItemTitles == {response.items[i].title : i \in 1..Len(response.items)}

\* the candidate an output entry was projected from: the first of its title
CandidateOf(title) ==
    scored_results[CHOOSE k \in 1..Len(scored_results) :
                      /\ scored_results[k].title = title
                      /\ \A m \in 1..(k - 1) : scored_results[m].title # title]

\* C1: a query whose trimmed text has fewer than 2 characters (Autocomplete)
\* or fewer than 3 (Search) is answered with exactly the empty list,
\* whatever the store holds.
C1_ShortQueryEmptyList ==
    ( /\ Done
      /\ \/ op = "autocomplete" /\ Len(Strip(rawq)) < 2
         \/ op = "search" /\ Len(Strip(rawq)) < 3 ) => response = EmptyList

\* a Search request whose q has 3 characters before trimming and fewer
\* after, refused although a title of the store contains the trimmed text
C1_Witness ==
    /\ pc = "se_ret_short"
    /\ Len(rawq) >= 3
    /\ Strip(rawq) # <<>>
    /\ \E i \in 1..Len(store) : TitleILike(store[i].title, Strip(rawq))
    /\ response = EmptyList

C3_FailureYieldsEmptyList ==
    pc \in {"ac_ret_error", "se_ret_noconn", "se_ret_dberror", "se_ret_error"}
      => response = EmptyList

\* C4: in a returned list the priorities of the property types never
\* decrease from one entry to a later one.
C4_PriorityNonDecreasing ==
    (Done /\ response.kind = "list") =>
      \A i, j \in 1..Len(response.items) :
         i < j => TablePriority(response.items[i].type) <= TablePriority(response.items[j].type)

\* an entry of a more preferred type stands before an entry with a strictly
\* higher score
C4_Witness ==
    /\ pc = "ac_ret_ok"
    /\ \E i, j \in 1..Len(response.items) :
          /\ i < j
          /\ TablePriority(response.items[i].type) < TablePriority(response.items[j].type)
          /\ response.items[i].score < response.items[j].score

\* the distance of a candidate is missing
NoDistance(x) == "distance_meters" \notin DOMAIN x \/ x.distance_meters = {}

\* (priority, -score, distance or +infinity) of x is at most that of y
CompositeKeyLeq(x, y) ==
    \/ TablePriority(x.type) < TablePriority(y.type)
    \/ /\ TablePriority(x.type) = TablePriority(y.type)
       /\ \/ x.score > y.score
          \/ /\ x.score = y.score
             /\ \/ NoDistance(y)
                \/ /\ ~NoDistance(x)
                   /\ \A dx \in x.distance_meters, dy \in y.distance_meters : dx <= dy

\* C5: any two consecutive entries of a returned list are in the order of
\* the composite key (priority ascending, score descending, distance
\* ascending with a missing distance as +infinity).
C5_OrderedByCompositeKey ==
    (pc \in {"ac_ret_ok", "se_ret_ok"}) =>
      \A i \in 1..(Len(response.items) - 1) :
         CompositeKeyLeq(CandidateOf(response.items[i].title),
                         CandidateOf(response.items[i + 1].title))

\* two consecutive Search entries of equal priority and score that the
\* distance orders
C5_Witness ==
    /\ pc = "se_ret_ok"
    /\ \E i \in 1..(Len(response.items) - 1) :
          LET x == CandidateOf(response.items[i].title)
              y == CandidateOf(response.items[i + 1].title)
          IN  /\ x.priority = y.priority
              /\ x.score = y.score
              /\ x.distance_meters # {}
              /\ y.distance_meters # {}
              /\ x.distance_meters # y.distance_meters

\* C6: in Autocomplete every title the ILIKE query retrieved is ranked, and
\* returned if it is, with a score of at least 70.
C6_SubstringScoreAtLeast70 ==
    pc = "ac_ret_ok" =>
      \A t \in IlikeTitles :
         /\ \E k \in 1..Len(scored_results) : scored_results[k].title = t
         /\ \A k \in 1..Len(scored_results) :
               scored_results[k].title = t => scored_results[k].score >= 70
         /\ \A i \in 1..Len(response.items) :
               response.items[i].title = t => response.items[i].score >= 70

\* a title retrieved by ILIKE whose three metrics are all below 70 is
\* returned with score 70
C6_Witness ==
    /\ pc = "ac_ret_ok"
    /\ \E i \in 1..Len(response.items) :
          /\ response.items[i].title \in IlikeTitles
          /\ LexicalScore(query, response.items[i].title) < 70
          /\ response.items[i].score = 70

\* C7: in Autocomplete the ranked entry of a title the ILIKE query
\* retrieved is an entry of one of its ILIKE rows (that row's type, the
\* boosted partial ratio), never the entry of its fuzzy-pool row.
C7_SubstringEntrySurvives ==
    pc = "ac_ret_ok" =>
      \A t \in IlikeTitles :
         \A k \in 1..Len(scored_results) :
            scored_results[k].title = t =>
               \E n \in 1..Len(ilike_results) :
                  /\ ilike_results[n][1] = t
                  /\ scored_results[k].type = ilike_results[n][2]
                  /\ scored_results[k].score =
                        (IF PartialRatio(Lower(query), Lower(t)) >= 70
                         THEN PartialRatio(Lower(query), Lower(t)) ELSE 70)

\* a returned title retrieved by both queries whose fuzzy-pool entry would
\* be admitted and would carry another score
C7_Witness ==
    /\ pc = "ac_ret_ok"
    /\ \E i \in 1..Len(response.items) :
          LET t == response.items[i].title
          IN  /\ t \in IlikeTitles
              /\ \E m \in 1..Len(all_properties) : all_properties[m][1] = t
              /\ LexicalScore(query, t) >= 40
              /\ LexicalScore(query, t) # response.items[i].score

\* C8: in Autocomplete a title the ILIKE query did not retrieve is ranked,
\* and returned, only if the best of its three metrics is at least 40.
C8_FuzzyOnlyAtLeast40 ==
    pc = "ac_ret_ok" =>
      /\ \A k \in 1..Len(scored_results) :
            scored_results[k].title \notin IlikeTitles
               => LexicalScore(query, scored_results[k].title) >= 40
      /\ \A i \in 1..Len(response.items) :
            response.items[i].title \notin IlikeTitles
               => LexicalScore(query, response.items[i].title) >= 40

\* a title of the store scoring below 40 is left out of a non-empty answer
C8_Witness ==
    /\ pc = "ac_ret_ok"
    /\ response.items # <<>>
    /\ \E m \in 1..Len(all_properties) :
          /\ all_properties[m][1] \notin IlikeTitles
          /\ LexicalScore(query, all_properties[m][1]) < 40
          /\ all_properties[m][1] \notin ItemTitles

\* C9: the score every candidate is ranked by is the best of the three
\* metrics of the lower-cased query and title (raised to 70 for a title the
\* ILIKE query retrieved) and lies in 0..100.
C9_ScoreIsMaxOfThree ==
    (pc \in {"ac_ret_ok", "se_ret_ok"}) =>
      \A k \in 1..Len(scored_results) :
         LET e    == scored_results[k]
             base == LexicalScore(query, e.title)
         IN  /\ base \in 0..100
             /\ e.score = (IF op = "autocomplete" /\ e.title \in IlikeTitles /\ base < 70
                           THEN 70 ELSE base)

\* the trimmed, lower-cased q holds 'near' and no landmark name
NearWithoutLandmark ==
    LET q == Lower(Strip(rawq))
    IN  /\ Contains(<<"n","e","a","r">>, q)
        /\ ~Contains(<<"m","r","t"," ","s","u","r","i","a","n">>, q)
        /\ ~Contains(<<"m","r","t"," ","s","u","n","g","a","i"," ","b","u","l","o","h">>, q)

\* C10: a Search whose query holds 'near' and no known landmark name is
\* answered with the empty list, and the store ran no query for it.
C10_NearWithoutLandmarkEmpty ==
    (Done /\ op = "search" /\ NearWithoutLandmark) =>
      response = EmptyList /\ executed = 0

\* the handler returns at the unresolved-landmark exit although a row of
\* the store passes the type filter and its title contains the query
C10_Witness ==
    /\ pc = "se_ret_unresolved"
    /\ NearWithoutLandmark
    /\ executed = 0
    /\ response = EmptyList
    /\ \E i \in 1..Len(store) :
          /\ store[i].ptype \in SeqRange(property_types)
          /\ TitleILike(store[i].title, query)

\* the type filter of the specification: the types named by the keywords of
\* the query, and the three listed types when it holds none
TypeFilterOf(q) ==
    LET named == (IF Contains(<<"c","o","n","d","o">>, q)
                  THEN {"apartment", "condominium"} ELSE {})
                 \cup (IF Contains(<<"a","p","a","r","t","m","e","n","t">>, q)
                       THEN {"apartment"} ELSE {})
                 \cup (IF Contains(<<"h","o","u","s","e">>, q) THEN {"house"} ELSE {})
    IN  IF named = {} THEN {"apartment", "house", "condominium"} ELSE named

\* the landmark named in the trimmed, lower-cased q, if any
LandmarkOf(q) ==
    IF Contains(<<"m","r","t"," ","s","u","r","i","a","n">>, q) THEN "mrt surian"
    ELSE IF Contains(<<"m","r","t"," ","s","u","n","g","a","i"," ","b","u","l","o","h">>, q)
    THEN "mrt sungai buloh"
    ELSE "none"

\* the request is a Search that resolved a landmark and was answered from
\* the ranked rows
SpatialAnswered == pc = "se_ret_ok" /\ LandmarkOf(Lower(Strip(rawq))) # "none"

\* the request is a Search that resolved no landmark and was answered from
\* the ranked rows
TextAnswered == pc = "se_ret_ok" /\ LandmarkOf(Lower(Strip(rawq))) = "none"

\* C11: in a spatial Search every output entry is a listing of the store
\* that has a location within 5000 metres of the landmark and a property
\* type in the derived type filter.
C11_SpatialWithinRadiusAndFilter ==
    SpatialAnswered =>
      \A n \in 1..Len(response.items) :
         \E i \in 1..Len(store) :
            /\ store[i].title = response.items[n].title
            /\ store[i].ptype = response.items[n].type
            /\ store[i].ptype \in TypeFilterOf(Lower(Strip(rawq)))
            /\ store[i].geom # "null"
            /\ DistanceMM(store[i].geom, LandmarkOf(Lower(Strip(rawq)))) <= 5000 * 1000

\* a spatial Search returned entries while the store held a listing of a
\* filtered type without a location, one a millimetre outside the radius and
\* one within the radius of a type outside the filter
C11_Witness ==
    /\ SpatialAnswered
    /\ response.items # <<>>
    /\ \E i, j, k \in 1..Len(store) :
          /\ store[i].ptype \in TypeFilterOf(Lower(Strip(rawq)))
          /\ store[i].geom = "null"
          /\ store[j].ptype \in TypeFilterOf(Lower(Strip(rawq)))
          /\ store[j].geom # "null"
          /\ DistanceMM(store[j].geom, LandmarkOf(Lower(Strip(rawq)))) = 5000 * 1000 + 1
          /\ store[k].ptype \notin TypeFilterOf(Lower(Strip(rawq)))
          /\ store[k].geom # "null"
          /\ DistanceMM(store[k].geom, LandmarkOf(Lower(Strip(rawq)))) <= 5000 * 1000

\* the distance of an output entry, missing distances last
DistanceLeq(x, y) ==
    \/ y.distance_meters = {}
    \/ /\ x.distance_meters # {}
       /\ \A a \in x.distance_meters : \A b \in y.distance_meters : a <= b

\* C12: in a spatial Search the returned list is in ascending order of
\* distanceMeters: of any two entries the earlier has the smaller or equal
\* distance.
C12_SortedByDistance ==
    SpatialAnswered =>
      \A i, j \in 1..Len(response.items) :
         i < j => \A a \in response.items[i].distance_meters :
                     \A b \in response.items[j].distance_meters : a <= b

\* C12, amended: in a spatial Search, of any two returned entries of the
\* same type priority whose candidates have the same lexical score, the
\* earlier has the smaller or equal distance, a missing distance counting
\* as the largest.
C12_SortedByDistanceWithinTies ==
    SpatialAnswered =>
      \A i, j \in 1..Len(response.items) :
         ( /\ i < j
           /\ TablePriority(response.items[i].type) = TablePriority(response.items[j].type)
           /\ CandidateOf(response.items[i].title).score
                = CandidateOf(response.items[j].title).score )
         => DistanceLeq(response.items[i], response.items[j])

\* a spatial answer with two entries of one priority and one score at
\* different distances, and a nearer entry of a less preferred type after them
C12_Witness ==
    /\ SpatialAnswered
    /\ \E i, j, k \in 1..Len(response.items) :
          /\ i < j /\ j < k
          /\ TablePriority(response.items[i].type) = TablePriority(response.items[j].type)
          /\ CandidateOf(response.items[i].title).score
               = CandidateOf(response.items[j].title).score
          /\ response.items[i].distance_meters # response.items[j].distance_meters
          /\ response.items[j].distance_meters # {}
          /\ response.items[k].distance_meters # {}
          /\ TablePriority(response.items[j].type) < TablePriority(response.items[k].type)
          /\ ~DistanceLeq(response.items[j], response.items[k])

\* C13: in a spatial Search every candidate and every output entry carries
\* the distance the store computed for it, to the centimetre, and none has
\* a missing distance.
C13_DistancePresentAndRetrieved ==
    SpatialAnswered =>
      /\ \A k \in 1..Len(scored_results) :
            /\ scored_results[k].distance_meters # {}
            /\ \E i \in 1..Len(store) :
                  /\ store[i].title = scored_results[k].title
                  /\ store[i].ptype = scored_results[k].type
                  /\ store[i].geom # "null"
                  /\ \A cm \in scored_results[k].distance_meters :
                        (cm * 10 - DistanceMM(store[i].geom,
                                              LandmarkOf(Lower(Strip(rawq))))) \in -5..5
      /\ \A n \in 1..Len(response.items) : response.items[n].distance_meters # {}

\* C14: in a text Search every output entry has a title that contains the
\* whole query, letter case ignored, a property type in the derived type
\* filter, and no distance.
C14_TextEntriesContainQuery ==
    TextAnswered =>
      \A n \in 1..Len(response.items) :
         /\ Contains(Lower(Strip(rawq)), Lower(response.items[n].title))
         /\ response.items[n].type \in TypeFilterOf(Lower(Strip(rawq)))
         /\ response.items[n].distance_meters = {}

\* C15: the same Autocomplete or Search request sent twice against the
\* unchanged store is answered with the same list in the same order,
\* whatever order the store returns the rows in.
C15_RepeatYieldsSameOutput ==
    (pc \in {"ac_ret_ok", "se_ret_ok"} /\ previous # NoResponse) => response = previous

\* C16: in Autocomplete no title retrieved by the substring match stands
\* after a title admitted only through the fuzzy pool.
C16_SubstringNeverBelowFuzzy ==
    pc = "ac_ret_ok" =>
      \A i, j \in 1..Len(response.items) :
         i < j => ~( /\ response.items[i].title \notin IlikeTitles
                     /\ response.items[j].title \in IlikeTitles )

\* C16, amended: in Autocomplete a title retrieved by the substring match
\* stands after a title admitted only through the fuzzy pool only when the
\* fuzzy title has a more preferred type priority, or the same priority and
\* a strictly higher score.
C16_SubstringBelowFuzzyOnlyByKey ==
    pc = "ac_ret_ok" =>
      \A i, j \in 1..Len(scored_results) :
         ( /\ i < j
           /\ scored_results[i].title \notin IlikeTitles
           /\ scored_results[j].title \in IlikeTitles )
         => \/ TablePriority(scored_results[i].type) < TablePriority(scored_results[j].type)
            \/ /\ TablePriority(scored_results[i].type) = TablePriority(scored_results[j].type)
               /\ scored_results[i].score > scored_results[j].score

\* a substring title stands after a fuzzy-only title of a more preferred
\* priority and a lower score
C16_Witness ==
    /\ pc = "ac_ret_ok"
    /\ \E i, j \in 1..Len(response.items) :
          /\ i < j
          /\ response.items[i].title \notin IlikeTitles
          /\ response.items[j].title \in IlikeTitles
          /\ TablePriority(response.items[i].type) < TablePriority(response.items[j].type)
          /\ response.items[i].score < response.items[j].score
          /\ response.items[j].score >= 70

\* C17: a request refused by validation is answered without a connection to
\* the store having been opened and without a query having run.
C17_RejectedWithoutStoreAccess ==
    ( /\ Done
      /\ \/ op = "autocomplete" /\ Len(Strip(rawq)) < 2
         \/ op = "search" /\ Len(Strip(rawq)) < 3 )
    => conn = "none" /\ executed = 0

\* an Autocomplete request with a q of one letter between spaces is refused
\* over a store that holds a title containing the letter
C17_Witness ==
    /\ pc = "ac_ret_short"
    /\ Len(rawq) >= 2
    /\ Len(Strip(rawq)) = 1
    /\ \E i \in 1..Len(store) : TitleILike(store[i].title, Strip(rawq))
    /\ conn = "none"
    /\ executed = 0

\* C18: an Autocomplete output entry has exactly the fields title, type and
\* score, and a Search output entry exactly title, type and distanceMeters;
\* neither holds the priority and a Search entry holds no score.
C18_OutputFields ==
    /\ pc = "ac_ret_ok" =>
         \A n \in 1..Len(response.items) :
            DOMAIN response.items[n] = {"title", "type", "score"}
    /\ pc = "se_ret_ok" =>
         \A n \in 1..Len(response.items) :
            DOMAIN response.items[n] = {"title", "type", "distance_meters"}

\* a Search answer with an entry with a distance and an entry without,
\* projected from candidates that hold a score and a priority
C18_Witness ==
    /\ pc = "se_ret_ok"
    /\ \E n, m \in 1..Len(response.items) :
          /\ response.items[n].distance_meters # {}
          /\ response.items[m].distance_meters = {}
    /\ \A k \in 1..Len(scored_results) :
          {"score", "priority"} \subseteq DOMAIN scored_results[k]

\* C19: every candidate of Autocomplete and of Search has priority 1 for an
\* apartment, 2 for a house, 3 for a condominium and 4 for any other type.
C19_PriorityTable ==
    pc \in {"ac_ret_ok", "se_ret_ok"} =>
      \A k \in 1..Len(scored_results) :
         /\ scored_results[k].priority \in 1..4
         /\ scored_results[k].type = "apartment" => scored_results[k].priority = 1
         /\ scored_results[k].type = "house" => scored_results[k].priority = 2
         /\ scored_results[k].type = "condominium" => scored_results[k].priority = 3
         /\ scored_results[k].type \notin {"apartment", "house", "condominium"}
              => scored_results[k].priority = 4

\* the candidates of one Autocomplete request have the four priorities
C19_Witness ==
    /\ pc = "ac_ret_ok"
    /\ {scored_results[k].priority : k \in 1..Len(scored_results)} = 1..4
    /\ \E k \in 1..Len(scored_results) : scored_results[k].type = "commercial"

\* C20: no step of an Autocomplete or Search request, on any path, changes
\* the listing records of the store.
C20_StoreNeverMutated == [][store' = store]_vars

\* a Search has run its retrieval query over a store with rows and answered
C20_Witness ==
    /\ pc = "se_ret_ok"
    /\ executed = 1
    /\ store # <<>>
    /\ raw_results # <<>>
    /\ Len(raw_results) < Len(store)

\* the response of an Autocomplete request served alone, when the store
\* returns `all` to the first query and `il` to the ILIKE query
AcAloneResponse(raw, il, all) ==
    ListResponse(AcSuggestions(AcSort(CombinedResults(Strip(raw), il, all))))

\* the response of a Search request served alone, when the store returns `rows`
SeAloneResponse(raw, rows) ==
    ListResponse(SeSuggestions(SeSort(
        [i \in 1..Len(rows) |-> SeEntry(Lower(Strip(raw)), rows[i])])))

\* the rows the store can return to the retrieval query of a Search for raw
SeAloneRows(st, raw) ==
    LET q    == Lower(Strip(raw))
        mark == ResolveLocation(q, LocationMap)
    IN  IF mark # NoCoords THEN SpatialResults(st, PropertyTypes(q), mark)
        ELSE TextResults(st, PropertyTypes(q), q)

\* C21: with two requests in flight and their steps interleaved in any way,
\* the response of each request is a response the same request gets from
\* the same store when it is served alone: the one its handler computes
\* from its own q and from rows the store returns for that q.
C21_ResultAsWhenAlone ==
    /\ pc = "ac_ret_short" => Len(Strip(rawq)) < 2 /\ response = EmptyList
    /\ pc = "ac_ret_error" => Len(Strip(rawq)) >= 2 /\ response = ErrorResponse
    /\ pc = "ac_ret_ok" =>
         /\ Len(Strip(rawq)) >= 2
         /\ all_properties \in Perms(AllPairs(store))
         /\ ilike_results \in {Take(il, QueryLimit) :
                                 il \in Perms(IlikePairs(store, Strip(rawq)))}
         /\ response = AcAloneResponse(rawq, ilike_results, all_properties)
    /\ pc = "se_ret_short" => Len(Strip(rawq)) < 3 /\ response = EmptyList
    /\ pc \in {"se_ret_noconn", "se_ret_dberror", "se_ret_error"} =>
         Len(Strip(rawq)) >= 3 /\ response = EmptyList
    /\ pc = "se_ret_unresolved" =>
         /\ Len(Strip(rawq)) >= 3
         /\ NearWithoutLandmark
         /\ response = EmptyList
    /\ pc = "se_ret_ok" =>
         /\ Len(Strip(rawq)) >= 3
         /\ ~NearWithoutLandmark
         /\ raw_results \in SeAloneRows(store, rawq)
         /\ response = SeAloneResponse(rawq, raw_results)

\* an Autocomplete request is answered with suggestions while a Search
\* request for another q, begun before it, holds its retrieved rows unranked
C21_Witness ==
    /\ pc = "ac_ret_ok"
    /\ response.items # <<>>
    /\ other.pc = "se_rank"
    /\ other.raw_results # <<>>
    /\ other.query # query

\* the titles of the rows the retrieval query of Search returned
RawTitles == {raw_results[n][1] : n \in 1..Len(raw_results)}

\* C22: Search keeps every retrieved row as a candidate whatever its score,
\* and when the rows have at most 5 distinct titles every one of the titles
\* is in the output.
C22_SearchKeepsEveryRow ==
    pc = "se_ret_ok" =>
      /\ Len(scored_results) = Len(raw_results)
      /\ \A n \in 1..Len(raw_results) :
            \E k \in 1..Len(scored_results) :
               /\ scored_results[k].title = raw_results[n][1]
               /\ scored_results[k].type = raw_results[n][2]
      /\ Cardinality(RawTitles) <= 5 => ItemTitles = RawTitles

\* a Search answer holds a title whose score is below the threshold of the
\* autocomplete pool, next to a title with a score above it
C22_Witness ==
    /\ pc = "se_ret_ok"
    /\ \E n, m \in 1..Len(response.items) :
          /\ CandidateOf(response.items[n].title).score < 40
          /\ CandidateOf(response.items[m].title).score >= 40

\* C23: in Search a failure to connect, a failing retrieval query and an
\* exception while scoring, sorting or projecting are each answered with
\* the empty list and the success status.
C23_SearchFailureEmptyList ==
    (Done /\ op = "search" /\ pc \notin {"se_ret_short", "se_ret_unresolved", "se_ret_ok"})
      => response.status = 200 /\ response.kind = "list" /\ response.items = <<>>

\* the retrieval query of a Search failed over a store with rows it would
\* have returned
C23_Witness ==
    /\ pc = "se_ret_dberror"
    /\ response = EmptyList
    /\ \E rows \in SeAloneRows(store, rawq) : rows # <<>>

\* C24: no candidate title left out of the output has a composite key
\* strictly smaller than the key of an entry of the output, and the output
\* has fewer than 5 entries only when the candidates have fewer than 5
\* distinct titles.
C24_TruncationKeepsBest ==
    pc \in {"ac_ret_ok", "se_ret_ok"} =>
      /\ \A t \in Titles(scored_results) \ ItemTitles :
            \A n \in 1..Len(response.items) :
               CompositeKeyLeq(CandidateOf(response.items[n].title), CandidateOf(t))
      /\ Len(response.items) < 5 =>
            Cardinality(Titles(scored_results)) = Len(response.items)

\* a Search answer of 5 entries out of candidates with more than 5 titles
C24_Witness ==
    /\ pc = "se_ret_ok"
    /\ Len(response.items) = 5
    /\ Cardinality(Titles(scored_results)) > 5

\* the first index of s whose element satisfies Test
FirstIndex(s, Test(_)) ==
    CHOOSE n \in 1..Len(s) : Test(s[n]) /\ \A m \in 1..(n - 1) : ~Test(s[m])

\* the place of a title in the retrieval order of Autocomplete: the rows of
\* the ILIKE query first, then the rows of the first query, a title
\* standing where its first row stands
AcRetrievalPlace(title) ==
    LET Has(row) == row[1] = title
    IN  IF title \in IlikeTitles THEN FirstIndex(ilike_results, Has)
        ELSE Len(ilike_results) + FirstIndex(all_properties, Has)

\* the place of a candidate of Search in the rows of the retrieval query
SeRetrievalPlace(e) ==
    LET Is(row) == row[1] = e.title /\ row[2] = e.type
                     /\ DistanceMeters(row[3]) = e.distance_meters
    IN  FirstIndex(raw_results, Is)

\* C25: candidates with equal composite keys stand in the order in which
\* they were retrieved: in Autocomplete the titles of the ILIKE rows and
\* then the titles of the fuzzy pool, each in the order of the rows; in
\* Search the order of the rows of the retrieval query.
C25_TiesInRetrievalOrder ==
    /\ pc = "ac_ret_ok" =>
         \A i, j \in 1..Len(scored_results) :
            ( /\ i < j
              /\ scored_results[i].priority = scored_results[j].priority
              /\ scored_results[i].score = scored_results[j].score )
            => AcRetrievalPlace(scored_results[i].title)
                 < AcRetrievalPlace(scored_results[j].title)
    /\ pc = "se_ret_ok" =>
         \A i, j \in 1..Len(scored_results) :
            ( /\ i < j
              /\ scored_results[i].priority = scored_results[j].priority
              /\ scored_results[i].score = scored_results[j].score
              /\ scored_results[i].distance_meters = scored_results[j].distance_meters )
            => SeRetrievalPlace(scored_results[i]) <= SeRetrievalPlace(scored_results[j])

\* two fuzzy-only entries of an Autocomplete answer have one key, and the
\* one returned first stands first although its row is the later one in
\* the table
C25_Witness ==
    /\ pc = "ac_ret_ok"
    /\ \E i, j \in 1..Len(response.items) :
          /\ i < j
          /\ response.items[i].title \notin IlikeTitles
          /\ response.items[j].title \notin IlikeTitles
          /\ TablePriority(response.items[i].type) = TablePriority(response.items[j].type)
          /\ response.items[i].score = response.items[j].score
          /\ \E a, b \in 1..Len(store) :
                /\ a > b
                /\ store[a].title = response.items[i].title
                /\ store[b].title = response.items[j].title

\* the rows of the store a spatial Search for the request may retrieve: a
\* type of the filter and a location within the radius
SpatialMatches ==
    {i \in 1..Len(store) :
        /\ store[i].ptype \in TypeFilterOf(Lower(Strip(rawq)))
        /\ store[i].geom # "null"
        /\ DistanceMM(store[i].geom, LandmarkOf(Lower(Strip(rawq)))) <= 5000 * 1000}

\* the rows of SpatialMatches strictly nearer to the landmark than row i
Nearer(i) ==
    {j \in SpatialMatches :
        DistanceMM(store[j].geom, LandmarkOf(Lower(Strip(rawq))))
          < DistanceMM(store[i].geom, LandmarkOf(Lower(Strip(rawq))))}

\* C26: in a spatial Search every output entry is one of the 50 nearest
\* listings of a filtered type within the radius: fewer than 50 such
\* listings are nearer to the landmark than it is.
C26_OnlyFiftyNearestRanked ==
    SpatialAnswered =>
      \A n \in 1..Len(response.items) :
         \E i \in SpatialMatches :
            /\ store[i].title = response.items[n].title
            /\ store[i].ptype = response.items[n].type
            /\ DistanceMeters({DistanceMM(store[i].geom, LandmarkOf(Lower(Strip(rawq))))})
                 = response.items[n].distance_meters
            /\ Cardinality(Nearer(i)) < 50

\* a spatial answer of 5 houses over a store with an apartment within the
\* radius that has 50 or more matching listings nearer than it
C26_Witness ==
    /\ SpatialAnswered
    /\ Len(response.items) = 5
    /\ \A n \in 1..Len(response.items) : response.items[n].type = "house"
    /\ \E i \in SpatialMatches :
          /\ store[i].ptype = "apartment"
          /\ Cardinality(Nearer(i)) >= 50

\* C29: in Search, of the retrieved rows that share a title the one the
\* output holds is first among them under the composite key (priority,
\* then score, then distance).
C29_DedupKeepsBestOfTitle ==
    pc = "se_ret_ok" =>
      \A n \in 1..Len(response.items) :
         \E k \in 1..Len(scored_results) :
            /\ scored_results[k].title = response.items[n].title
            /\ scored_results[k].type = response.items[n].type
            /\ scored_results[k].distance_meters = response.items[n].distance_meters
            /\ \A m \in 1..Len(scored_results) :
                  scored_results[m].title = scored_results[k].title
                    => CompositeKeyLeq(scored_results[k], scored_results[m])

\* an answer holds a title as a house although a nearer row lists the same
\* title as a condominium, and another title at the nearer of its two rows
C29_Witness ==
    /\ pc = "se_ret_ok"
    /\ \E n \in 1..Len(response.items) : \E m \in 1..Len(scored_results) :
          /\ scored_results[m].title = response.items[n].title
          /\ response.items[n].type = "house"
          /\ scored_results[m].type = "condominium"
          /\ \A a \in scored_results[m].distance_meters :
                \A b \in response.items[n].distance_meters : a < b
    /\ \E n \in 1..Len(response.items) : \E m \in 1..Len(scored_results) :
          /\ scored_results[m].title = response.items[n].title
          /\ scored_results[m].type = response.items[n].type
          /\ \A a \in scored_results[m].distance_meters :
                \A b \in response.items[n].distance_meters : a > b
          /\ scored_results[m].distance_meters # {}
          /\ response.items[n].distance_meters # {}

\* C27: the type filter of a Search is the union of the types of the
\* keywords of its query (the three listed types when it has none), and
\* every candidate and output entry has one of the three listed types and
\* a priority from 1 to 3.
C27_TypeFilterDerivation ==
    /\ (op = "search" /\ pc \in {"se_query", "se_rank", "se_ret_ok"}) =>
          SeqRange(property_types) = TypeFilterOf(Lower(Strip(rawq)))
    /\ pc = "se_ret_ok" =>
          /\ \A k \in 1..Len(scored_results) :
                /\ scored_results[k].type \in {"apartment", "house", "condominium"}
                /\ scored_results[k].priority \in 1..3
          /\ \A n \in 1..Len(response.items) :
                response.items[n].type \in {"apartment", "house", "condominium"}

\* a Search for 'condo' near a landmark returns an apartment and a
\* condominium and leaves out a house within the radius
C27_Witness ==
    /\ pc = "se_ret_ok"
    /\ Contains(<<"c","o","n","d","o">>, Lower(Strip(rawq)))
    /\ {response.items[n].type : n \in 1..Len(response.items)}
         = {"apartment", "condominium"}
    /\ \E i \in 1..Len(store) :
          /\ store[i].ptype = "house"
          /\ store[i].geom # "null"
          /\ DistanceMM(store[i].geom, LandmarkOf(Lower(Strip(rawq)))) <= 5000 * 1000

\* the (title, type) pairs of the rows the retrieval query returned
RawPairs == {<<raw_results[n][1], raw_results[n][2]>> : n \in 1..Len(raw_results)}

\* C28: a Search retrieves by distance exactly when its query names a
\* landmark, with or without 'near'; by distance it retrieves the listings
\* of the filter within the radius whatever their titles, and by text it
\* retrieves every listing of the filter whose title contains the query,
\* wherever it lies.
C28_PathChosenByLandmark ==
    pc \in {"se_rank", "se_ret_ok"} =>
      IF LandmarkOf(Lower(Strip(rawq))) # "none"
      THEN /\ \A n \in 1..Len(raw_results) : raw_results[n][3] # {}
           /\ Cardinality(SpatialMatches) <= 50 =>
                 RawPairs = {<<store[i].title, store[i].ptype>> : i \in SpatialMatches}
      ELSE /\ \A n \in 1..Len(raw_results) : raw_results[n][3] = {}
           /\ \A i \in 1..Len(store) :
                 ( /\ store[i].ptype \in TypeFilterOf(Lower(Strip(rawq)))
                   /\ Contains(Lower(Strip(rawq)), Lower(store[i].title)) )
                 => <<store[i].title, store[i].ptype>> \in RawPairs

\* a query that names a landmark and does not say 'near' is answered by
\* distance, with a title that does not contain the query
C28_Witness ==
    /\ pc = "se_ret_ok"
    /\ LandmarkOf(Lower(Strip(rawq))) # "none"
    /\ ~Contains(<<"n","e","a","r">>, Lower(Strip(rawq)))
    /\ \E n \in 1..Len(response.items) :
          /\ ~Contains(Lower(Strip(rawq)), Lower(response.items[n].title))
          /\ response.items[n].distance_meters # {}

\* C30: a request that opened a connection to the store has closed it when
\* its response is returned, on every path.
C30_ConnectionClosedOnReturn == Done => conn # "open"
====
